---- MODULE Spec2Model ----
(***************************************************************************)
(* Model of the party movie service (src/unnamed/part_000): the swipe log, *)
(* the per-member Elo scorer calculateMemberElo, the normalisation and     *)
(* aggregation done by calculateAndStoreFinalRankings, and the ranking     *)
(* query getPartyRankings.                                                 *)
(*                                                                         *)
(* Numbers.  The code computes with IEEE doubles.  The model computes the  *)
(* same values exactly, in fixed point: an expected_score is an integer    *)
(* number of 1/Scale (tenths), and an Elo value is an integer number of    *)
(* 1/Unit rating points, where Unit = Scale * MemberLcm makes every        *)
(* K_FACTOR * (a - e) and every mean over at most Cardinality(Users)       *)
(* members an integer.  1200 is Pts(1200), 1174.4 is Tenths(11744).        *)
(***************************************************************************)
EXTENDS Integers, Sequences, FiniteSets, TLC

VARIABLES
  party_movies,     \* table party_movies of the party, in row order
  party_members,    \* table party_members of the party, in row order
  user_swipes,      \* table user_swipes of the party, in insertion order
  memberSwipes,     \* calculateMemberElo: the swipe list passed in
  memberElo,        \* calculateMemberElo: the array returned
  memberEloArrays,  \* calculateAndStoreFinalRankings: the arrays given to checkAll
  aggregatedElos,   \* calculateAndStoreFinalRankings: what checkAll returned
  rankings,         \* getPartyRankings: the rows returned
  outcome,          \* how the last call ended
  calls,            \* recordSwipe invocations taken await by await: where each one is
  parties,          \* table parties
  gen,              \* generatePartyMovies: the invocation, its locals and where it is
  prefForm,         \* PreferenceForm: its useState values and the form's ageRating, era
  keyEvent          \* PreferenceForm: the last keydown event handleKeyDown was given

vars == << party_movies, party_members, user_swipes, memberSwipes, memberElo,
           memberEloArrays, aggregatedElos, rankings, outcome, calls, parties, gen,
           prefForm, keyEvent >>

\* what the PreferenceForm component owns
formVars == << prefForm, keyEvent >>

\* useState([]) five times and useForm without default values
Mounted ==
  [allInputs |-> << >>, genreTags |-> << >>, songTags |-> << >>, songTracks |-> << >>,
   languageTags |-> << >>, ageRating |-> "", era |-> ""]

\* no keydown event yet
NoKeyEvent == [key |-> "", tagName |-> "", type |-> "", defaultPrevented |-> FALSE]

\* what the invocations taken await by await own
stepVars == << calls, parties, gen >>

-----------------------------------------------------------------------------
(* Bounds and domains *)

MaxSwipes == 3

Users == {"u1", "u2"}
MovieIds == <<"m1", "m2">>
Range(f) == { f[i] : i \in DOMAIN f }
Titles == {"A", "B"}
Directions == {"left", "right"}
Statuses == {"active", "left"}

-----------------------------------------------------------------------------
(* Fixed-point numbers *)

Scale == 10

RECURSIVE Gcd(_, _)
Gcd(a, b) == IF b = 0 THEN a ELSE Gcd(b, a % b)

RECURSIVE LcmUpTo(_)
LcmUpTo(n) == IF n <= 1 THEN 1
              ELSE LET l == LcmUpTo(n - 1) IN (l * n) \div Gcd(l, n)

MemberLcm == LcmUpTo(Cardinality(Users))

Unit == Scale * MemberLcm

Pts(n) == n * Unit

Tenths(n) == n * MemberLcm

ValidScores == {0, 5, 8, 10}
MalformedScores == {15}
ExpectedScores == ValidScores \cup MalformedScores

K_FACTOR == 32
BASE_ELO == 1200

-----------------------------------------------------------------------------
(* A JavaScript Map as a sequence of [key, val] in insertion order *)

MapHas(map, k) == \E i \in DOMAIN map : map[i].key = k

MapGet(map, k) == map[CHOOSE i \in DOMAIN map : map[i].key = k].val

\* Map.prototype.set: an existing key keeps its position and takes the value
MapSet(map, k, v) ==
  IF MapHas(map, k)
  THEN [i \in DOMAIN map |-> IF map[i].key = k THEN [key |-> k, val |-> v] ELSE map[i]]
  ELSE Append(map, [key |-> k, val |-> v])

-----------------------------------------------------------------------------
(* calculateMemberElo *)

\* a faulty variant: the map keyed by title
RECURSIVE InitRatingsByTitle(_, _)
InitRatingsByTitle(movies, map) ==
  IF movies = << >> THEN map
  ELSE LET movie == Head(movies) IN
       InitRatingsByTitle(Tail(movies),
         MapSet(map, movie.title,
                [elo |-> Pts(BASE_ELO),
                 expected_score |-> movie.expected_score,
                 title |-> movie.title]))

\* for (const movie of movies) movieRatings.set(movie.movie_id, {...})
RECURSIVE InitRatings(_, _)
InitRatings(movies, map) ==
  IF movies = << >> THEN map
  ELSE LET movie == Head(movies) IN
       InitRatings(Tail(movies),
         MapSet(map, movie.movie_id,
                [elo |-> Pts(BASE_ELO),
                 expected_score |-> movie.expected_score,
                 title |-> movie.title]))

\* a faulty variant: the change assigned onto the baseline instead of accumulated
EloAfterAssign(movieRating, direction) ==
  LET actualScore == IF direction = "right" THEN 1 ELSE 0
      eloChange == K_FACTOR * (actualScore * Scale - movieRating.expected_score) * MemberLcm
  IN  Pts(BASE_ELO) + eloChange

\* a faulty variant: the left swipe scored as the accept
EloAfterSwapped(movieRating, direction) ==
  LET actualScore == IF direction = "left" THEN 1 ELSE 0
      eloChange == K_FACTOR * (actualScore * Scale - movieRating.expected_score) * MemberLcm
  IN  movieRating.elo + eloChange

\* actualScore = right ? 1.0 : 0.0; eloChange = K * (actualScore - expected); elo += eloChange
EloAfter(movieRating, direction) ==
  LET actualScore == IF direction = "right" THEN 1 ELSE 0
      eloChange == K_FACTOR * (actualScore * Scale - movieRating.expected_score) * MemberLcm
  IN  movieRating.elo + eloChange

\* a faulty variant: an unknown movie given an entry of its own
RECURSIVE ApplySwipesAddUnknown(_, _)
ApplySwipesAddUnknown(map, swipes) ==
  IF swipes = << >> THEN map
  ELSE LET swipe == Head(swipes) IN
       IF ~MapHas(map, swipe.movie_id)
       THEN ApplySwipesAddUnknown(
              MapSet(map, swipe.movie_id,
                     [elo |-> Pts(BASE_ELO), expected_score |-> 0, title |-> swipe.movie_id]),
              Tail(swipes))
       ELSE LET movieRating == MapGet(map, swipe.movie_id) IN
            ApplySwipesAddUnknown(
              MapSet(map, swipe.movie_id,
                     [movieRating EXCEPT !.elo = EloAfter(movieRating, swipe.direction)]),
              Tail(swipes))

\* for (const swipe of memberSwipes) { get; if (!movieRating) continue; elo += ... }
RECURSIVE ApplySwipes(_, _)
ApplySwipes(map, swipes) ==
  IF swipes = << >> THEN map
  ELSE LET swipe == Head(swipes) IN
       IF ~MapHas(map, swipe.movie_id)
       THEN ApplySwipes(map, Tail(swipes))
       ELSE LET movieRating == MapGet(map, swipe.movie_id) IN
            ApplySwipes(
              MapSet(map, swipe.movie_id,
                     [movieRating EXCEPT !.elo = EloAfter(movieRating, swipe.direction)]),
              Tail(swipes))

\* a faulty variant: only the candidates the member swiped are returned
calculateMemberEloSwipedOnly(movies, swipes) ==
  LET Swiped(movie) == \E i \in DOMAIN swipes : swipes[i].movie_id = movie.movie_id
      movieRatings == ApplySwipes(InitRatings(SelectSeq(movies, Swiped), << >>), swipes)
  IN  [i \in DOMAIN movieRatings |->
         [title |-> movieRatings[i].val.title, elo |-> movieRatings[i].val.elo]]

calculateMemberElo(movies, swipes) ==
  LET movieRatings == ApplySwipes(InitRatings(movies, << >>), swipes)
  IN  [i \in DOMAIN movieRatings |->
         [title |-> movieRatings[i].val.title, elo |-> movieRatings[i].val.elo]]

-----------------------------------------------------------------------------
(* Array.prototype.sort((a, b) => a.title.localeCompare(b.title)) *)

\* the collation order of the titles of the model
TitleOrder == <<"A", "B">>

TitleRank(t) == CHOOSE i \in DOMAIN TitleOrder : TitleOrder[i] = t

localeCompare(a, b) == TitleRank(a) - TitleRank(b)

\* x goes after every element that does not compare greater: the sort is stable
RECURSIVE InsertByTitle(_, _)
InsertByTitle(sorted, x) ==
  IF sorted = << >> THEN << x >>
  ELSE IF localeCompare(Head(sorted).title, x.title) <= 0
       THEN << Head(sorted) >> \o InsertByTitle(Tail(sorted), x)
       ELSE << x >> \o sorted

RECURSIVE SortFrom(_, _)
SortFrom(arr, acc) ==
  IF arr = << >> THEN acc ELSE SortFrom(Tail(arr), InsertByTitle(acc, Head(arr)))

\* a faulty variant: the array left in the order it came in
SortByTitleNone(arr) == arr

SortByTitle(arr) == SortFrom(arr, << >>)

-----------------------------------------------------------------------------
(* calculateAndStoreFinalRankings: grouping, scoring, padding *)

RECURSIVE EmptyGroups(_, _)
EmptyGroups(members, map) ==
  IF members = << >> THEN map
  ELSE EmptyGroups(Tail(members), MapSet(map, Head(members), << >>))

\* a faulty variant: a swipe of a user without a group opens a group for that user
RECURSIVE GroupSwipesAddUnknown(_, _)
GroupSwipesAddUnknown(map, allSwipes) ==
  IF allSwipes = << >> THEN map
  ELSE LET swipe == Head(allSwipes)
           mine == IF MapHas(map, swipe.user_id) THEN MapGet(map, swipe.user_id) ELSE << >>
       IN  GroupSwipesAddUnknown(
             MapSet(map, swipe.user_id,
                    Append(mine, [movie_id |-> swipe.movie_id, direction |-> swipe.direction])),
             Tail(allSwipes))

\* for (const swipe of allSwipes) { get(swipe.user_id); if (memberSwipes) push }
RECURSIVE GroupSwipes(_, _)
GroupSwipes(map, allSwipes) ==
  IF allSwipes = << >> THEN map
  ELSE LET swipe == Head(allSwipes) IN
       IF MapHas(map, swipe.user_id)
       THEN GroupSwipes(
              MapSet(map, swipe.user_id,
                     Append(MapGet(map, swipe.user_id),
                            [movie_id |-> swipe.movie_id, direction |-> swipe.direction])),
              Tail(allSwipes))
       ELSE GroupSwipes(map, Tail(allSwipes))

swipesByMember(members, allSwipes) == GroupSwipes(EmptyGroups(members, << >>), allSwipes)

\* a faulty variant: every member scored on one shared, growing swipe list
RECURSIVE ScoreMembersSharedFrom(_, _, _)
ScoreMembersSharedFrom(movies, groups, shared) ==
  IF groups = << >> THEN << >>
  ELSE LET mine == shared \o Head(groups).val IN
       << SortByTitle(calculateMemberElo(movies, mine)) >>
         \o ScoreMembersSharedFrom(movies, Tail(groups), mine)

ScoreMembersShared(movies, groups) == ScoreMembersSharedFrom(movies, groups, << >>)

\* for (const [userId, memberSwipes] of swipesByMember.entries()) { score; sort; push }
RECURSIVE ScoreMembers(_, _)
ScoreMembers(movies, groups) ==
  IF groups = << >> THEN << >>
  ELSE << SortByTitle(calculateMemberElo(movies, Head(groups).val)) >>
         \o ScoreMembers(movies, Tail(groups))

\* new Set(arr.map(m => m.title)): the titles once each, in first-seen order
RECURSIVE TitleSet(_, _)
TitleSet(arr, acc) ==
  IF arr = << >> THEN acc
  ELSE IF \E i \in DOMAIN acc : acc[i] = Head(arr).title
       THEN TitleSet(Tail(arr), acc)
       ELSE TitleSet(Tail(arr), Append(acc, Head(arr).title))

\* for (const title of allTitles) if (!memberTitles.has(title)) push({title, elo: BASE_ELO})
RECURSIVE AddMissing(_, _, _)
AddMissing(memberArray, memberTitles, allTitles) ==
  IF allTitles = << >> THEN memberArray
  ELSE IF \E i \in DOMAIN memberTitles : memberTitles[i] = Head(allTitles)
       THEN AddMissing(memberArray, memberTitles, Tail(allTitles))
       ELSE AddMissing(Append(memberArray, [title |-> Head(allTitles), elo |-> Pts(BASE_ELO)]),
                       memberTitles, Tail(allTitles))

\* a faulty variant: the member array rebuilt from the titles, every rating at the base
PadMemberReset(memberArray, allTitles) ==
  SortByTitle([i \in DOMAIN allTitles |-> [title |-> allTitles[i], elo |-> Pts(BASE_ELO)]])

PadMember(memberArray, allTitles) ==
  SortByTitle(AddMissing(memberArray, TitleSet(memberArray, << >>), allTitles))

\* if (memberEloArrays.length > 0) { allTitles of the first array; pad and re-sort each }
PadAll(arrays) ==
  IF arrays = << >> THEN arrays
  ELSE LET allTitles == TitleSet(arrays[1], << >>)
       IN  [i \in DOMAIN arrays |-> PadMember(arrays[i], allTitles)]

NormalizedArrays(movies, members, allSwipes) ==
  PadAll(ScoreMembers(movies, swipesByMember(members, allSwipes)))

-----------------------------------------------------------------------------
(* checkAll of @/lib/elo_rating/compare_elo: the arithmetic mean, per position, of
   the aligned member vectors, under the title of the first vector *)

RECURSIVE SumAt(_, _)
SumAt(vectors, i) ==
  IF vectors = << >> THEN 0 ELSE Head(vectors)[i].elo + SumAt(Tail(vectors), i)

\* a faulty variant: the running sum never reset between titles
RECURSIVE SumUpTo(_, _)
SumUpTo(vectors, i) == IF i = 0 THEN 0 ELSE SumAt(vectors, i) + SumUpTo(vectors, i - 1)

checkAllRunningSum(vectors) ==
  IF vectors = << >> THEN << >>
  ELSE [i \in DOMAIN vectors[1] |->
          [title |-> vectors[1][i].title, elo |-> SumUpTo(vectors, i) \div Len(vectors)]]

checkAll(vectors) ==
  IF vectors = << >> THEN << >>
  ELSE [i \in DOMAIN vectors[1] |->
          [title |-> vectors[1][i].title, elo |-> SumAt(vectors, i) \div Len(vectors)]]

-----------------------------------------------------------------------------
(* calculateAndStoreFinalRankings: the write-back *)

\* new Map(aggregatedElos.map(m => [m.title, m.elo])): a later pair replaces an earlier one
RECURSIVE EloMapFrom(_, _)
EloMapFrom(aggregated, map) ==
  IF aggregated = << >> THEN map
  ELSE EloMapFrom(Tail(aggregated), MapSet(map, Head(aggregated).title, Head(aggregated).elo))

eloMap(aggregated) == EloMapFrom(aggregated, << >>)

\* a faulty variant: the stored rating preferred to the consensus
finalEloStoredFirst(map, movie) ==
  IF movie.elo_rating # 0 THEN movie.elo_rating
  ELSE IF MapHas(map, movie.title) /\ MapGet(map, movie.title) # 0
       THEN MapGet(map, movie.title)
       ELSE Pts(BASE_ELO)

\* eloMap.get(movie.title) || movie.elo_rating || 1200: undefined and 0 are falsy
finalElo(map, movie) ==
  IF MapHas(map, movie.title) /\ MapGet(map, movie.title) # 0
  THEN MapGet(map, movie.title)
  ELSE IF movie.elo_rating # 0 THEN movie.elo_rating ELSE Pts(BASE_ELO)

\* update({elo_rating}).eq('movie_id', movie.movie_id)
UpdateElo(table, movie_id, elo) ==
  [i \in DOMAIN table |->
     IF table[i].movie_id = movie_id THEN [table[i] EXCEPT !.elo_rating = elo] ELSE table[i]]

\* for (const movie of movies) { finalElo; update }, movies being the rows read at the start
RECURSIVE StoreFinalElos(_, _, _)
StoreFinalElos(table, movies, map) ==
  IF movies = << >> THEN table
  ELSE StoreFinalElos(UpdateElo(table, Head(movies).movie_id, finalElo(map, Head(movies))),
                      Tail(movies), map)

\* a faulty variant: the status filter left out of the query
ActiveMembersAll(table) == [i \in DOMAIN table |-> table[i].user_id]

\* select('user_id').eq('status', 'active'), in row order
ActiveMembers(table) ==
  LET F[i \in 0..Len(table)] ==
        IF i = 0 THEN << >>
        ELSE IF table[i].status = "active" THEN Append(F[i - 1], table[i].user_id) ELSE F[i - 1]
  IN  F[Len(table)]

-----------------------------------------------------------------------------
(* getPartyRankings: select('*').order('elo_rating', descending); rows of equal
   rating come in an order the database chooses *)

OrderByEloDesc(table) ==
  { [i \in DOMAIN table |-> table[p[i]]] : p \in
      { q \in Permutations(DOMAIN table) :
          \A i, j \in DOMAIN table :
             i < j => table[q[i]].elo_rating >= table[q[j]].elo_rating } }

-----------------------------------------------------------------------------
(* The states a party can be in when swiping starts *)

SeqsUpTo(S, n) == UNION { [1..k -> S] : k \in 0..n }

\* party_movies rows: movie_id is the candidate's identity, so no two rows share it
MovieTables(scores, elos) ==
  { t \in SeqsUpTo([movie_id : Range(MovieIds), title : Titles,
                    expected_score : scores, elo_rating : elos], Len(MovieIds)) :
      \A i \in DOMAIN t : t[i].movie_id = MovieIds[i] }

\* party_members rows: one per user who joined, active or not
MemberTables ==
  { t \in SeqsUpTo([user_id : Users, status : Statuses, swipes_completed : {0},
                    has_completed_swiping : {FALSE}], Cardinality(Users)) :
      \A i, j \in DOMAIN t : i # j => t[i].user_id # t[j].user_id }

SwipeLists == SeqsUpTo([movie_id : Range(MovieIds), direction : Directions], MaxSwipes)

-----------------------------------------------------------------------------
(* recordSwipe(partyId, movieId, direction) by an authenticated user *)

\* select('*').eq('party_id').eq('user_id').eq('movie_id').single(): the row when
\* exactly one matches, otherwise no data
existingSwipe(user, movieId) ==
  Cardinality({ i \in DOMAIN user_swipes :
                  user_swipes[i].user_id = user /\ user_swipes[i].movie_id = movieId }) = 1

\* select('swipes_completed').eq('party_id').eq('user_id').single()
member(user) ==
  Cardinality({ i \in DOMAIN party_members : party_members[i].user_id = user }) = 1

recordSwipe(user, movieId, direction) ==
  /\ Len(user_swipes) < MaxSwipes
  /\ IF existingSwipe(user, movieId)
     THEN /\ outcome' = "Swipe already recorded for this movie"
          /\ UNCHANGED << user_swipes, party_members >>
     ELSE /\ outcome' = "recorded"
          /\ user_swipes' = Append(user_swipes,
               [user_id |-> user, movie_id |-> movieId, direction |-> direction])
          /\ party_members' =
               IF member(user)
               THEN [i \in DOMAIN party_members |->
                      IF party_members[i].user_id = user
                      THEN LET newCount == party_members[i].swipes_completed + 1 IN
                           [party_members[i] EXCEPT
                              !.swipes_completed = newCount,
                              !.has_completed_swiping = (newCount >= 10)]
                      ELSE party_members[i]]
               ELSE party_members
  /\ memberEloArrays' = << >>
  /\ aggregatedElos' = << >>
  /\ rankings' = << >>
  /\ UNCHANGED << party_movies, memberSwipes, memberElo >>
  /\ UNCHANGED stepVars
  /\ UNCHANGED formVars

-----------------------------------------------------------------------------
(* calculateAndStoreFinalRankings(partyId) *)

\* a faulty variant: an empty movie list let through
NoMoviesIgnored(movies) == FALSE

\* if (moviesError || !movies || movies.length === 0) throw
NoMovies(movies) == Len(movies) = 0

\* if (membersError || !members || members.length === 0) return
NoMembers(members) == Len(members) = 0

\* The three queries are taken to succeed: what is left of the guards is the data.
calculateAndStoreFinalRankings ==
  LET movies == party_movies
      members == ActiveMembers(party_members)
      arrays == NormalizedArrays(movies, members, user_swipes)
      aggregated == checkAll(arrays)
  IN
  /\ rankings' = << >>
  /\ UNCHANGED << party_members, user_swipes, memberSwipes, memberElo >>
  /\ UNCHANGED stepVars
  /\ UNCHANGED formVars
  /\ IF NoMovies(movies)
     THEN /\ outcome' = "Failed to get party movies"
          /\ memberEloArrays' = << >>
          /\ aggregatedElos' = << >>
          /\ UNCHANGED party_movies
     ELSE IF NoMembers(members)
     THEN /\ outcome' = "kept"
          /\ memberEloArrays' = << >>
          /\ aggregatedElos' = << >>
          /\ UNCHANGED party_movies
     ELSE /\ outcome' = "stored"
          /\ memberEloArrays' = arrays
          /\ aggregatedElos' = aggregated
          /\ party_movies' = StoreFinalElos(party_movies, movies, eloMap(aggregated))

-----------------------------------------------------------------------------
(* getPartyRankings(partyId) *)

getPartyRankings ==
  /\ rankings' \in OrderByEloDesc(party_movies)
  /\ outcome' = "ranked"
  /\ memberEloArrays' = << >>
  /\ aggregatedElos' = << >>
  /\ UNCHANGED << party_movies, party_members, user_swipes, memberSwipes, memberElo >>
  /\ UNCHANGED stepVars
  /\ UNCHANGED formVars

-----------------------------------------------------------------------------
(* The party: swipes, the final computation, the ranking query *)

\* generatePartyMovies not invoked
NotCalled == [pc |-> "none"]

\* elo_rating before any final computation: the default the code falls back to
InitialElos == {Pts(BASE_ELO)}

Init ==
  /\ party_movies \in MovieTables({5, 8}, InitialElos)
  /\ party_members \in MemberTables
  /\ user_swipes = << >>
  /\ memberSwipes = << >>
  /\ memberElo = << >>
  /\ memberEloArrays = << >>
  /\ aggregatedElos = << >>
  /\ rankings = << >>
  /\ outcome = "none"
  /\ calls = << >>
  /\ parties = << >>
  /\ gen = NotCalled
  /\ prefForm = Mounted
  /\ keyEvent = NoKeyEvent

Next ==
  \/ \E user \in Users, i \in DOMAIN MovieIds, direction \in Directions :
       recordSwipe(user, MovieIds[i], direction)
  \/ calculateAndStoreFinalRankings
  \/ getPartyRankings

Spec == Init /\ [][Next]_vars

-----------------------------------------------------------------------------
(* The member scorer alone, on every candidate list and swipe list of the bounds *)

CallCalculateMemberElo ==
  /\ outcome = "none"
  /\ memberElo' = calculateMemberElo(party_movies, memberSwipes)
  /\ outcome' = "scored"
  /\ UNCHANGED << party_movies, party_members, user_swipes, memberSwipes,
                  memberEloArrays, aggregatedElos, rankings >>
  /\ UNCHANGED stepVars
  /\ UNCHANGED formVars

InitElo ==
  /\ party_movies \in MovieTables(ExpectedScores, {Pts(BASE_ELO)})
  /\ memberSwipes \in SwipeLists
  /\ party_members = << >>
  /\ user_swipes = << >>
  /\ memberElo = << >>
  /\ memberEloArrays = << >>
  /\ aggregatedElos = << >>
  /\ rankings = << >>
  /\ outcome = "none"
  /\ calls = << >>
  /\ parties = << >>
  /\ gen = NotCalled
  /\ prefForm = Mounted
  /\ keyEvent = NoKeyEvent

NextElo == CallCalculateMemberElo

SpecElo == InitElo /\ [][NextElo]_vars

-----------------------------------------------------------------------------
(* recordSwipe taken await by await, with several invocations in flight: each
   request to the database is one step, and steps of different invocations
   interleave.  The insert is a plain insert: the only uniqueness check of the code
   is its own select before it. *)

MaxCalls == 2

\* what a recordSwipe step leaves alone
notSwipeVars == << party_movies, memberSwipes, memberElo, memberEloArrays, aggregatedElos,
                  rankings, outcome, parties, gen, prefForm, keyEvent >>

\* recordSwipe(partyId, movieId, direction) invoked by an authenticated user
StartRecordSwipe(user, movieId, direction) ==
  /\ Len(calls) < MaxCalls
  /\ calls' = Append(calls, [user_id |-> user, movie_id |-> movieId, direction |-> direction,
                             pc |-> "check", newCount |-> 0])
  /\ UNCHANGED << user_swipes, party_members >>
  /\ UNCHANGED notSwipeVars

\* const { data: existingSwipe } = await ...; if (existingSwipe) throw
CheckExisting(c) ==
  /\ calls[c].pc = "check"
  /\ calls' = [calls EXCEPT ![c].pc =
                 IF existingSwipe(calls[c].user_id, calls[c].movie_id)
                 THEN "Swipe already recorded for this movie"
                 ELSE "insert"]
  /\ UNCHANGED << user_swipes, party_members >>
  /\ UNCHANGED notSwipeVars

\* await supabase.from('user_swipes').insert({...})
InsertSwipe(c) ==
  /\ calls[c].pc = "insert"
  /\ user_swipes' = Append(user_swipes,
       [user_id |-> calls[c].user_id, movie_id |-> calls[c].movie_id,
        direction |-> calls[c].direction])
  /\ calls' = [calls EXCEPT ![c].pc = "member"]
  /\ UNCHANGED party_members
  /\ UNCHANGED notSwipeVars

\* const { data: member } = await ...; if (member) { newCount = (swipes_completed || 0) + 1
ReadMember(c) ==
  /\ calls[c].pc = "member"
  /\ calls' =
       IF member(calls[c].user_id)
       THEN LET row == CHOOSE i \in DOMAIN party_members :
                         party_members[i].user_id = calls[c].user_id
            IN  [calls EXCEPT ![c].pc = "update",
                              ![c].newCount = party_members[row].swipes_completed + 1]
       ELSE [calls EXCEPT ![c].pc = "returned"]
  /\ UNCHANGED << user_swipes, party_members >>
  /\ UNCHANGED notSwipeVars

\* await ...update({ swipes_completed: newCount, has_completed_swiping: newCount >= 10 })
UpdateMember(c) ==
  /\ calls[c].pc = "update"
  /\ party_members' =
       [i \in DOMAIN party_members |->
          IF party_members[i].user_id = calls[c].user_id
          THEN [party_members[i] EXCEPT
                  !.swipes_completed = calls[c].newCount,
                  !.has_completed_swiping = (calls[c].newCount >= 10)]
          ELSE party_members[i]]
  /\ calls' = [calls EXCEPT ![c].pc = "returned"]
  /\ UNCHANGED user_swipes
  /\ UNCHANGED notSwipeVars

InitSwipe ==
  /\ party_members \in MemberTables
  /\ user_swipes = << >>
  /\ calls = << >>
  /\ party_movies = << >>
  /\ memberSwipes = << >>
  /\ memberElo = << >>
  /\ memberEloArrays = << >>
  /\ aggregatedElos = << >>
  /\ rankings = << >>
  /\ outcome = "none"
  /\ parties = << >>
  /\ gen = NotCalled
  /\ prefForm = Mounted
  /\ keyEvent = NoKeyEvent

NextSwipe ==
  \/ \E user \in Users, i \in DOMAIN MovieIds, direction \in Directions :
       StartRecordSwipe(user, MovieIds[i], direction)
  \/ \E c \in DOMAIN calls : CheckExisting(c)
  \/ \E c \in DOMAIN calls : InsertSwipe(c)
  \/ \E c \in DOMAIN calls : ReadMember(c)
  \/ \E c \in DOMAIN calls : UpdateMember(c)

SpecSwipe == InitSwipe /\ [][NextSwipe]_vars

-----------------------------------------------------------------------------
(* generatePartyMovies(partyId, userId?) taken await by await.  The rpc
   aggregate_party_preferences, generateMovieRecommendations and the two store
   functions are outside this file: the rpc's reply and the generated list are
   chosen among the values of the bounds, the store appends the rows. *)

PartyId == "p1"

\* JSON values of the aggregated preferences: scalars, arrays of scalars and arrays
Str(s) == [type |-> "string", s |-> s, n |-> 0]
Num(n) == [type |-> "number", s |-> "", n |-> n]
Scalar(v) == [nested |-> FALSE, vs |-> << v >>]
Nested(vs) == [nested |-> TRUE, vs |-> vs]
NullValue == [kind |-> "null", items |-> << >>]
ScalarValue(v) == [kind |-> "scalar", items |-> << Scalar(v) >>]
ArrayValue(items) == [kind |-> "array", items |-> items]

\* String(v)
String(v) == IF v.type = "number" THEN ToString(v.n) ELSE v.s

\* v.map(String)
RECURSIVE MapString(_)
MapString(vs) == IF vs = << >> THEN << >> ELSE << String(Head(vs)) >> \o MapString(Tail(vs))

\* value.flatMap(v => Array.isArray(v) ? v.map(String) : [String(v)])
RECURSIVE FlatMapString(_)
FlatMapString(items) ==
  IF items = << >> THEN << >>
  ELSE MapString(Head(items).vs) \o FlatMapString(Tail(items))

\* for (const [key, value] of Object.entries(aggregatedPrefs)) { ... }
RECURSIVE normalizedPreferences(_)
normalizedPreferences(entries) ==
  IF entries = << >> THEN << >>
  ELSE LET key == Head(entries).key
           value == Head(entries).value
       IN  IF value.kind = "array"
           THEN << [key |-> key, val |-> FlatMapString(value.items)] >>
                  \o normalizedPreferences(Tail(entries))
           ELSE IF value.kind # "null"
           THEN << [key |-> key, val |-> << String(value.items[1].vs[1]) >>] >>
                  \o normalizedPreferences(Tail(entries))
           ELSE normalizedPreferences(Tail(entries))

\* members?.forEach(member => { if (member.spotify_urls) allSpotifyUrls.push(...) })
RECURSIVE allSpotifyUrls(_)
allSpotifyUrls(members) ==
  IF members = << >> THEN << >>
  ELSE IF Head(members).spotify_urls.null
       THEN allSpotifyUrls(Tail(members))
       ELSE Head(members).spotify_urls.urls \o allSpotifyUrls(Tail(members))

\* select('spotify_urls').eq('status', 'active').eq('has_submitted_preferences', true)
SubmittedMembers(table) ==
  LET Submitted(row) == row.status = "active" /\ row.has_submitted_preferences
  IN  SelectSeq(table, Submitted)

\* what the rpc can answer: an error, nothing, an empty object, preferences
NoData == [null |-> TRUE, entries |-> << >>]
Data(entries) == [null |-> FALSE, entries |-> entries]
AggregateReplies ==
  { [error |-> "rpc failed", data |-> NoData],
    [error |-> "", data |-> NoData],
    [error |-> "", data |-> Data(<< >>)],
    [error |-> "", data |-> Data(<< [key |-> "genres",
                                     value |-> ArrayValue(<< Scalar(Str("comedy")),
                                                             Nested(<< Str("drama"), Num(7) >>) >>)] >>)],
    [error |-> "", data |-> Data(<< [key |-> "genres", value |-> ScalarValue(Str("comedy"))],
                                    [key |-> "mood", value |-> NullValue] >>)] }

\* party_members rows as generatePartyMovies reads them
SpotifyUrls == { [null |-> TRUE, urls |-> << >>], [null |-> FALSE, urls |-> << "s1" >>] }
SubmitterTables ==
  { t \in SeqsUpTo([user_id : Users, status : Statuses, has_submitted_preferences : BOOLEAN,
                    spotify_urls : SpotifyUrls], Cardinality(Users)) :
      \A i, j \in DOMAIN t : i # j => t[i].user_id # t[j].user_id }

PartyTables ==
  { << >>,
    << [id |-> PartyId, aggregated_preferences |-> NoData] >>,
    << [id |-> "p2", aggregated_preferences |-> NoData] >> }

\* a faulty variant: an empty rpc answer let through
NoPreferencesIgnored(aggregated) == FALSE

\* if (!aggregated) throw
NoPreferences(aggregated) == aggregated.null

notGenVars == << party_members, user_swipes, memberSwipes, memberElo, memberEloArrays,
                aggregatedElos, rankings, outcome, calls, prefForm, keyEvent >>

\* const { data: party, error: partyError } = await ...single(); if (... || !party) throw
GetParty ==
  /\ gen.pc = "getParty"
  /\ LET party == Cardinality({ i \in DOMAIN parties : parties[i].id = PartyId }) = 1
     IN  gen' = [gen EXCEPT !.party = party,
                            !.pc = IF party THEN "aggregate" ELSE "Party not found"]
  /\ UNCHANGED << parties, party_movies >>
  /\ UNCHANGED notGenVars

\* const { data: aggregated, error: aggError } = await supabase.rpc(...); the two throws
Aggregate ==
  /\ gen.pc = "aggregate"
  /\ \E reply \in AggregateReplies :
       gen' = [gen EXCEPT !.rpc = TRUE,
                          !.reply = reply,
                          !.pc = IF reply.error # "" THEN "Failed to aggregate preferences"
                                 ELSE IF NoPreferences(reply.data) THEN "No preferences found"
                                 ELSE "storePreferences"]
  /\ UNCHANGED << parties, party_movies >>
  /\ UNCHANGED notGenVars

\* await ...update({ aggregated_preferences: aggregated }).eq('id', partyId)
StorePreferences ==
  /\ gen.pc = "storePreferences"
  /\ parties' = [i \in DOMAIN parties |->
                   IF parties[i].id = PartyId
                   THEN [parties[i] EXCEPT !.aggregated_preferences = gen.reply.data]
                   ELSE parties[i]]
  /\ gen' = [gen EXCEPT !.pc = "members"]
  /\ UNCHANGED party_movies
  /\ UNCHANGED notGenVars

\* the members query, allSpotifyUrls, normalizedPreferences, userInput
BuildUserInput ==
  /\ gen.pc = "members"
  /\ LET urls == allSpotifyUrls(SubmittedMembers(party_members))
     IN  gen' = [gen EXCEPT
                   !.userInput = [preferences |-> normalizedPreferences(gen.reply.data.entries),
                                  spotifyUrls |-> IF Len(urls) > 0
                                                  THEN [null |-> FALSE, urls |-> urls]
                                                  ELSE [null |-> TRUE, urls |-> << >>]],
                   !.pc = "generate"]
  /\ UNCHANGED << parties, party_movies >>
  /\ UNCHANGED notGenVars

\* const movies = await generateMovieRecommendations(userInput)
Generate ==
  /\ gen.pc = "generate"
  /\ \E movies \in MovieTables({5}, InitialElos) :
       gen' = [gen EXCEPT !.generated = TRUE, !.movies = movies, !.pc = "store"]
  /\ UNCHANGED << parties, party_movies >>
  /\ UNCHANGED notGenVars

\* if (userId) storePartyMoviesAnonymous(...) else storePartyMovies(...); return movies
Store ==
  /\ gen.pc = "store"
  /\ party_movies' = party_movies \o gen.movies
  /\ gen' = [gen EXCEPT !.stored = IF gen.userId # "" THEN "storePartyMoviesAnonymous"
                                   ELSE "storePartyMovies",
                        !.pc = "returned"]
  /\ UNCHANGED parties
  /\ UNCHANGED notGenVars

\* generatePartyMovies(partyId, userId?) invoked; userId "" is an absent userId
Invoked(userId) ==
  [pc |-> "getParty", userId |-> userId, party |-> FALSE, rpc |-> FALSE,
   reply |-> [error |-> "", data |-> NoData],
   userInput |-> [preferences |-> << >>, spotifyUrls |-> [null |-> TRUE, urls |-> << >>]],
   generated |-> FALSE, movies |-> << >>, stored |-> ""]

InitGen ==
  /\ parties \in PartyTables
  /\ party_members \in SubmitterTables
  /\ gen \in { Invoked(userId) : userId \in { "", "u1" } }
  /\ party_movies = << >>
  /\ user_swipes = << >>
  /\ memberSwipes = << >>
  /\ memberElo = << >>
  /\ memberEloArrays = << >>
  /\ aggregatedElos = << >>
  /\ rankings = << >>
  /\ outcome = "none"
  /\ calls = << >>
  /\ prefForm = Mounted
  /\ keyEvent = NoKeyEvent

NextGen ==
  \/ GetParty
  \/ Aggregate
  \/ StorePreferences
  \/ BuildUserInput
  \/ Generate
  \/ Store

SpecGen == InitGen /\ [][NextGen]_vars

-----------------------------------------------------------------------------
(* PreferenceForm (src/components/party/preference-form.tsx).  One step is one
   event: its handler runs on the state of the last render, each setX call
   replaces what an earlier setX call of the same handler asked for, and the
   component renders again before the next event.  The form's values are a store
   that getValues and setValue read and write at once. *)

notFormVars == << party_movies, party_members, user_swipes, memberSwipes, memberElo,
                 memberEloArrays, aggregatedElos, rankings, outcome, calls, parties, gen >>

\* the keydown events of the bounds; Element.tagName of an HTML element is upper case
Keys == { "Enter", "a" }
TagNames == { "BUTTON", "INPUT" }
ElementTypes == { "submit", "button", "text" }

\* String.prototype.toLowerCase on the tag names
toLowerCase(str) ==
  CASE str = "BUTTON" -> "button"
    [] str = "INPUT" -> "input"
    [] OTHER -> str

\* handleKeyDown(e): the form's onKeyDown
handleKeyDown(key, targetTagName, targetType) ==
  /\ keyEvent' =
       LET tagName == toLowerCase(targetTagName) IN
       [key |-> key, tagName |-> targetTagName, type |-> targetType,
        defaultPrevented |-> (key = "Enter" /\ (tagName # "BUTTON" \/ targetType # "submit"))]
  /\ UNCHANGED prefForm
  /\ UNCHANGED notFormVars

\* the values the user can pick or type
GenreValues == { "Action", "English" }
LanguageValues == { "English" }
AgeRatings == { "PG", "R" }
Eras == { "1990s" }
SongDisplayValues == { "s1", " s1" }

\* String.prototype.trim on the display values
trim(str) == IF str = " s1" THEN "s1" ELSE str

includes(array, value) == \E i \in DOMAIN array : array[i] = value

\* array.filter(x => x !== value)
Without(array, value) ==
  LET Other(x) == x # value IN SelectSeq(array, Other)

\* new Map(songTracks) with value deleted
MapDelete(map, key) ==
  LET Other(entry) == entry.key # key IN SelectSeq(map, Other)

\* addToAllInputs(value), called in a handler that renders from snap and has asked
\* for asked so far
addToAllInputs(snap, asked, value) ==
  IF value # "" /\ ~includes(snap.allInputs, value)
  THEN [asked EXCEPT !.allInputs = Append(snap.allInputs, value)]
  ELSE asked

\* removeFromAllInputs(value), likewise
removeFromAllInputs(snap, asked, value) ==
  [asked EXCEPT
     !.allInputs = Without(snap.allInputs, value),
     !.genreTags = IF includes(snap.genreTags, value) THEN Without(snap.genreTags, value) ELSE @,
     !.languageTags =
        IF includes(snap.languageTags, value) THEN Without(snap.languageTags, value) ELSE @,
     !.songTags = IF includes(snap.songTags, value) THEN Without(snap.songTags, value) ELSE @,
     !.songTracks = IF includes(snap.songTags, value) THEN MapDelete(snap.songTracks, value) ELSE @,
     !.ageRating = IF @ = value THEN "" ELSE @,
     !.era = IF @ = value THEN "" ELSE @]

\* removedTags.forEach(tag => removeFromAllInputs(tag))
RECURSIVE RemoveEach(_, _, _)
RemoveEach(snap, asked, tags) ==
  IF tags = << >> THEN asked
  ELSE RemoveEach(snap, removeFromAllInputs(snap, asked, Head(tags)), Tail(tags))

\* newTags.forEach(tag => addToAllInputs(tag))
RECURSIVE AddEach(_, _, _)
AddEach(snap, asked, tags) ==
  IF tags = << >> THEN asked
  ELSE AddEach(snap, addToAllInputs(snap, asked, Head(tags)), Tail(tags))

\* the lists a TagInput reports: its tags with one value added or one taken away
TagChanges(tags, values) ==
  { Append(tags, v) : v \in { x \in values : ~includes(tags, x) } }
    \cup { Without(tags, v) : v \in { x \in values : includes(tags, x) } }

\* the tags of old that the list now lacks
NotIn(old, now) ==
  LET Gone(tag) == ~includes(now, tag) IN SelectSeq(old, Gone)

handleGenreTagsChange(tags) ==
  /\ LET snap == prefForm
         removedTags == NotIn(snap.genreTags, tags)
         newTags == NotIn(tags, snap.genreTags)
     IN  prefForm' = [AddEach(snap, RemoveEach(snap, snap, removedTags), newTags)
                        EXCEPT !.genreTags = tags]
  /\ UNCHANGED keyEvent
  /\ UNCHANGED notFormVars

handleLanguageTagsChange(tags) ==
  /\ LET snap == prefForm
         removedTags == NotIn(snap.languageTags, tags)
         newTags == NotIn(tags, snap.languageTags)
     IN  prefForm' = [AddEach(snap, RemoveEach(snap, snap, removedTags), newTags)
                        EXCEPT !.languageTags = tags]
  /\ UNCHANGED keyEvent
  /\ UNCHANGED notFormVars

handleSongSelect(displayValue, spotifyUrl) ==
  /\ LET snap == prefForm
         trimmedValue == trim(displayValue)
     IN  prefForm' =
           IF displayValue # "" /\ trimmedValue # "" /\ ~includes(snap.songTags, trimmedValue)
           THEN addToAllInputs(snap,
                  [snap EXCEPT !.songTags = Append(snap.songTags, trimmedValue),
                               !.songTracks = MapSet(snap.songTracks, trimmedValue, spotifyUrl)],
                  trimmedValue)
           ELSE snap
  /\ UNCHANGED keyEvent
  /\ UNCHANGED notFormVars

\* handleSelectChange(value, fieldName), called with the store already changed
handleSelectChange(snap, changed, value, fieldName) ==
  LET oldValue == changed[fieldName]
      afterRemove == IF oldValue # "" /\ includes(snap.allInputs, oldValue)
                     THEN removeFromAllInputs(snap, changed, oldValue)
                     ELSE changed
  IN  IF value # "" /\ ~includes(snap.allInputs, value)
      THEN addToAllInputs(snap, afterRemove, value)
      ELSE afterRemove

\* Select onValueChange: field.onChange(value); handleSelectChange(value, fieldName)
onValueChange(value, fieldName) ==
  /\ LET snap == prefForm
         changed == [snap EXCEPT ![fieldName] = value]
     IN  prefForm' = handleSelectChange(snap, changed, value, fieldName)
  /\ UNCHANGED keyEvent
  /\ UNCHANGED notFormVars

\* the X button of an entry of the selections box
onClickRemove(input) ==
  /\ includes(prefForm.allInputs, input)
  /\ prefForm' = removeFromAllInputs(prefForm, prefForm, input)
  /\ UNCHANGED keyEvent
  /\ UNCHANGED notFormVars

InitForm ==
  /\ prefForm = Mounted
  /\ keyEvent = NoKeyEvent
  /\ party_movies = << >>
  /\ party_members = << >>
  /\ user_swipes = << >>
  /\ memberSwipes = << >>
  /\ memberElo = << >>
  /\ memberEloArrays = << >>
  /\ aggregatedElos = << >>
  /\ rankings = << >>
  /\ outcome = "none"
  /\ calls = << >>
  /\ parties = << >>
  /\ gen = NotCalled

NextForm ==
  \/ \E key \in Keys, tagName \in TagNames, type \in ElementTypes :
       handleKeyDown(key, tagName, type)
  \/ \E tags \in TagChanges(prefForm.genreTags, GenreValues) : handleGenreTagsChange(tags)
  \/ \E tags \in TagChanges(prefForm.languageTags, LanguageValues) :
       handleLanguageTagsChange(tags)
  \/ \E displayValue \in SongDisplayValues : handleSongSelect(displayValue, "url")
  \/ \E value \in AgeRatings : onValueChange(value, "ageRating")
  \/ \E value \in Eras : onValueChange(value, "era")
  \/ \E input \in Range(prefForm.allInputs) : onClickRemove(input)

SpecForm == InitForm /\ [][NextForm]_vars

-----------------------------------------------------------------------------
(* Properties of calculateMemberElo, under SpecElo *)

Scored == outcome = "scored"

\* the positions of the swipes of a list that reference a movie, in one direction
SwipesOn(swipes, movie_id, direction) ==
  { i \in DOMAIN swipes : swipes[i].movie_id = movie_id /\ swipes[i].direction = direction }

AllSwipesOn(swipes, movie_id) == { i \in DOMAIN swipes : swipes[i].movie_id = movie_id }

InUnitInterval(e) == 0 <= e /\ e <= Scale

\* C1: a candidate c with expected_score e in [0,1] whose only swipe from the member
\* is an accept is returned with rating 1200 + 32 * (1 - e); whose only swipe is a
\* reject, with rating 1200 + 32 * (0 - e).
C1_SingleSwipeRating ==
  Scored =>
    \A c \in DOMAIN party_movies :
      LET movie == party_movies[c]
          e == movie.expected_score
          rights == SwipesOn(memberSwipes, movie.movie_id, "right")
          lefts == SwipesOn(memberSwipes, movie.movie_id, "left")
      IN  InUnitInterval(e) =>
            /\ (Cardinality(rights) = 1 /\ lefts = {}) =>
                 memberElo[c].elo = Tenths(BASE_ELO * Scale + K_FACTOR * (Scale - e))
            /\ (Cardinality(lefts) = 1 /\ rights = {}) =>
                 memberElo[c].elo = Tenths(BASE_ELO * Scale + K_FACTOR * (0 - e))

\* a scored list with one candidate accepted once at e = 0.8 and another rejected once
C1_Witness ==
  /\ Scored
  /\ Len(party_movies) = 2
  /\ party_movies[1].expected_score = 8
  /\ \A c \in DOMAIN party_movies :
       InUnitInterval(party_movies[c].expected_score)
  /\ Cardinality(SwipesOn(memberSwipes, party_movies[1].movie_id, "right")) = 1
  /\ SwipesOn(memberSwipes, party_movies[1].movie_id, "left") = {}
  /\ Cardinality(SwipesOn(memberSwipes, party_movies[2].movie_id, "left")) = 1
  /\ SwipesOn(memberSwipes, party_movies[2].movie_id, "right") = {}
  /\ memberElo[1].elo = Tenths(12064)

Permuted(seq, p) == [i \in DOMAIN seq |-> seq[p[i]]]

\* C2: every permutation of the swipe list gives the same rating to every candidate:
\* 1200 plus the sum of 32 * (a - e) over the swipes that reference the candidate.
C2_OrderIndependent ==
  Scored =>
    /\ \A p \in Permutations(DOMAIN memberSwipes) :
         calculateMemberElo(party_movies, Permuted(memberSwipes, p)) = memberElo
    /\ \A c \in DOMAIN party_movies :
         LET movie == party_movies[c]
             e == movie.expected_score
             nRight == Cardinality(SwipesOn(memberSwipes, movie.movie_id, "right"))
             nLeft == Cardinality(SwipesOn(memberSwipes, movie.movie_id, "left"))
         IN  memberElo[c].elo =
               Tenths(BASE_ELO * Scale + nRight * K_FACTOR * (Scale - e)
                                       + nLeft * K_FACTOR * (0 - e))

\* a scored list that swipes one candidate both ways and another candidate in between
C2_Witness ==
  /\ Scored
  /\ Len(party_movies) = 2
  /\ Len(memberSwipes) = 3
  /\ memberSwipes[1].movie_id = party_movies[1].movie_id
  /\ memberSwipes[2].movie_id = party_movies[2].movie_id
  /\ memberSwipes[3].movie_id = party_movies[1].movie_id
  /\ memberSwipes[1].direction # memberSwipes[3].direction
  /\ party_movies[1].expected_score = 8

\* C3: the result has exactly one entry per candidate, in candidate order, and a
\* candidate the member never swiped has rating exactly 1200.
C3_OneEntryPerCandidate ==
  Scored =>
    /\ Len(memberElo) = Len(party_movies)
    /\ \A c \in DOMAIN party_movies :
         /\ memberElo[c].title = party_movies[c].title
         /\ AllSwipesOn(memberSwipes, party_movies[c].movie_id) = {} =>
              memberElo[c].elo = Pts(BASE_ELO)

\* two candidates of one title, one swiped and one not
C3_Witness ==
  /\ Scored
  /\ Len(party_movies) = 2
  /\ party_movies[1].title = party_movies[2].title
  /\ AllSwipesOn(memberSwipes, party_movies[1].movie_id) # {}
  /\ AllSwipesOn(memberSwipes, party_movies[2].movie_id) = {}
  /\ memberElo[1].elo # memberElo[2].elo

MovieIdsOf(movies) == { movies[i].movie_id : i \in DOMAIN movies }

RemoveAt(seq, i) == [j \in 1..(Len(seq) - 1) |-> IF j < i THEN seq[j] ELSE seq[j + 1]]

\* C4: a swipe on a movie that is not a candidate raises nothing and changes nothing:
\* the result is the result of the list without it, and has no entry for the movie.
C4_UnknownSwipeIgnored ==
  (outcome # "none") =>
    /\ Scored
    /\ Len(memberElo) = Len(party_movies)
    /\ \A i \in DOMAIN memberSwipes :
         memberSwipes[i].movie_id \notin MovieIdsOf(party_movies) =>
           memberElo = calculateMemberElo(party_movies, RemoveAt(memberSwipes, i))

\* a swipe on an unknown movie between two swipes on the one candidate
C4_Witness ==
  /\ Scored
  /\ Len(party_movies) = 1
  /\ Len(memberSwipes) = 3
  /\ memberSwipes[1].movie_id \in MovieIdsOf(party_movies)
  /\ memberSwipes[2].movie_id \notin MovieIdsOf(party_movies)
  /\ memberSwipes[3].movie_id \in MovieIdsOf(party_movies)

Malformed(movies) == \E c \in DOMAIN movies : ~InUnitInterval(movies[c].expected_score)

\* C10: with a candidate whose expected_score is outside [0,1], the scorer ends in a
\* validation error and returns no rating vector.
C10_MalformedScoreRejected ==
  (outcome # "none" /\ Malformed(party_movies)) =>
    (outcome = "validation error" /\ memberElo = << >>)

-----------------------------------------------------------------------------
(* Properties of calculateAndStoreFinalRankings, under Spec *)

Stored == outcome = "stored"

\* C5: the consensus ratings do not depend on the order in which the active members
\* are returned and their vectors handed to the aggregator.
C5_MemberOrderIrrelevant ==
  Stored =>
    LET members == ActiveMembers(party_members) IN
    \A p \in Permutations(DOMAIN members) :
      checkAll(NormalizedArrays(party_movies, Permuted(members, p), user_swipes))
        = aggregatedElos

\* two active members whose vectors differ
C5_Witness ==
  /\ Stored
  /\ Len(memberEloArrays) = 2
  /\ Len(aggregatedElos) = 2
  /\ memberEloArrays[1] # memberEloArrays[2]
  /\ memberEloArrays[1][1].elo # Pts(BASE_ELO)
  /\ memberEloArrays[2][2].elo # Pts(BASE_ELO)

\* C6: if every member vector given to the aggregator rates one title strictly above
\* another, the consensus rating of the first is strictly greater than the second's.
C6_Monotonic ==
  Stored =>
    \A i, j \in DOMAIN aggregatedElos :
      (\A m \in DOMAIN memberEloArrays :
          /\ memberEloArrays[m][i].title = aggregatedElos[i].title
          /\ memberEloArrays[m][j].title = aggregatedElos[j].title
          /\ memberEloArrays[m][i].elo > memberEloArrays[m][j].elo)
      => aggregatedElos[i].elo > aggregatedElos[j].elo

\* two members who both rate the first title above the second, by different margins
C6_Witness ==
  /\ Stored
  /\ Len(memberEloArrays) = 2
  /\ Len(aggregatedElos) = 2
  /\ aggregatedElos[1].title # aggregatedElos[2].title
  /\ \A m \in 1..2 : memberEloArrays[m][1].elo > memberEloArrays[m][2].elo
  /\ memberEloArrays[1][1].elo # memberEloArrays[2][1].elo
  /\ aggregatedElos[1].elo > aggregatedElos[2].elo

\* candidates A (0.5) and B (0.8); member 1 accepts A then rejects B; member 2 rejects A
Scenario ==
  /\ Len(party_movies) = 2
  /\ party_movies[1].title = "A" /\ party_movies[1].expected_score = 5
  /\ party_movies[2].title = "B" /\ party_movies[2].expected_score = 8
  /\ ActiveMembers(party_members) = << "u1", "u2" >>
  /\ swipesByMember(<< "u1", "u2" >>, user_swipes) =
       << [key |-> "u1", val |-> << [movie_id |-> party_movies[1].movie_id, direction |-> "right"],
                                    [movie_id |-> party_movies[2].movie_id, direction |-> "left"] >>],
          [key |-> "u2", val |-> << [movie_id |-> party_movies[1].movie_id, direction |-> "left"] >>] >>

\* C7: in the scenario the member vectors are {A: 1216, B: 1174.4} and
\* {A: 1184, B: 1200}, the consensus is {A: 1200, B: 1187.2}, and every ranking the
\* query can return lists A before B.
C7_EndToEnd ==
  (Stored /\ Scenario) =>
    /\ memberEloArrays =
         << << [title |-> "A", elo |-> Tenths(12160)], [title |-> "B", elo |-> Tenths(11744)] >>,
            << [title |-> "A", elo |-> Tenths(11840)], [title |-> "B", elo |-> Tenths(12000)] >> >>
    /\ aggregatedElos =
         << [title |-> "A", elo |-> Tenths(12000)], [title |-> "B", elo |-> Tenths(11872)] >>
    /\ \A r \in OrderByEloDesc(party_movies) : r[1].title = "A" /\ r[2].title = "B"

C7_Witness == Stored /\ Scenario

DistinctTitles(movies) ==
  \A i, j \in DOMAIN movies : i # j => movies[i].title # movies[j].title

\* C8: after the computation completes for a party with pairwise-distinct titles, every
\* movie's stored elo_rating is the consensus rating of its own title.
C8_StoredIsConsensus ==
  (Stored /\ DistinctTitles(party_movies)) =>
    \A i \in DOMAIN party_movies :
      /\ Cardinality({ k \in DOMAIN aggregatedElos :
                         aggregatedElos[k].title = party_movies[i].title }) = 1
      /\ \A k \in DOMAIN aggregatedElos :
           aggregatedElos[k].title = party_movies[i].title =>
             party_movies[i].elo_rating = aggregatedElos[k].elo

\* two movies stored in the order B, A, with different consensus ratings off the baseline
C8_Witness ==
  /\ Stored
  /\ Len(party_movies) = 2
  /\ party_movies[1].title = "B" /\ party_movies[2].title = "A"
  /\ party_movies[1].elo_rating # Pts(BASE_ELO)
  /\ party_movies[2].elo_rating # Pts(BASE_ELO)
  /\ party_movies[1].elo_rating # party_movies[2].elo_rating

\* C9: when two candidates of the party share a title, the computation does not
\* complete: it rejects the input instead of storing merged ratings.
C9_DuplicateTitleRejected ==
  ~DistinctTitles(party_movies) => ~Stored

-----------------------------------------------------------------------------
(* Properties of the guards of calculateAndStoreFinalRankings, under Spec *)

CalculateOutcomes == { "Failed to get party movies", "kept", "stored" }

Threw == outcome = "Failed to get party movies"

Kept == outcome = "kept"

NoActiveRow(table) == \A i \in DOMAIN table : table[i].status # "active"

\* C11 as stated: with an empty candidate set the ranking computation does not raise
\* an error.
C11_EmptyIsNotAnError ==
  Len(party_movies) = 0 => ~Threw

\* C11, amended: with an empty candidate set calculateAndStoreFinalRankings throws
\* 'Failed to get party movies: No movies found' before it scores or aggregates
\* anything; it is the ranking query that returns an empty list without an error.
C11_EmptyCandidatesThrow ==
  Len(party_movies) = 0 =>
    /\ outcome \in CalculateOutcomes =>
         Threw /\ memberEloArrays = << >> /\ aggregatedElos = << >>
    /\ outcome = "ranked" => rankings = << >>

\* the computation has thrown for a party with an active member and a recorded swipe
\* but no movie
C11_Witness ==
  /\ Threw
  /\ Len(party_movies) = 0
  /\ ~NoActiveRow(party_members)
  /\ Len(user_swipes) > 0

\* C12: when the party has movies but no active member, a call of
\* calculateAndStoreFinalRankings completes without an error and leaves every stored
\* elo_rating as it was; nothing is aggregated.
C12_NoActiveMembersKeepsRatings ==
  [][ (outcome' \in CalculateOutcomes /\ Len(party_movies) > 0 /\ NoActiveRow(party_members)) =>
        /\ outcome' = "kept"
        /\ party_movies' = party_movies
        /\ memberEloArrays' = << >>
        /\ aggregatedElos' = << >> ]_vars

\* the computation has returned early for a party of two movies whose only members
\* have left, one of them with a recorded swipe
C12_Witness ==
  /\ Kept
  /\ Len(party_movies) = 2
  /\ Len(party_members) > 0
  /\ NoActiveRow(party_members)
  /\ \E i \in DOMAIN user_swipes, j \in DOMAIN party_members :
       user_swipes[i].user_id = party_members[j].user_id

-----------------------------------------------------------------------------
(* Properties of the grouping, padding and sorting steps, under Spec *)

\* the swipe lists the last computation grouped, one per active member
Groups == swipesByMember(ActiveMembers(party_members), user_swipes)

\* what calculateMemberElo returned for each of them, before any sort or padding
RawVectors == [m \in DOMAIN Groups |-> calculateMemberElo(party_movies, Groups[m].val)]

TitlesOf(vector) == { vector[i].title : i \in DOMAIN vector }

Count(vector, entry) == Cardinality({ i \in DOMAIN vector : vector[i] = entry })

\* C13: after the padding step every member vector has an entry for every title of
\* any member's vector, and every entry the padding added has rating exactly 1200.
C13_PaddedToUnion ==
  Stored =>
    LET raw == RawVectors
        rawTitles == [m \in DOMAIN raw |-> TitlesOf(raw[m])]
        union == UNION { rawTitles[m] : m \in DOMAIN raw }
    IN  /\ DOMAIN memberEloArrays = DOMAIN raw
        /\ \A m \in DOMAIN memberEloArrays :
             /\ union \subseteq TitlesOf(memberEloArrays[m])
             /\ \A i \in DOMAIN memberEloArrays[m] :
                  memberEloArrays[m][i].title \notin rawTitles[m] =>
                    memberEloArrays[m][i].elo = Pts(BASE_ELO)

\* two movies of different titles, a first member without any swipe and a second
\* member who swiped one movie only
C13_Witness ==
  /\ Stored
  /\ Len(party_movies) = 2
  /\ DistinctTitles(party_movies)
  /\ Len(Groups) = 2
  /\ Groups[1].val = << >>
  /\ Len(Groups[2].val) = 1
  /\ memberEloArrays[2] # memberEloArrays[1]

\* C14: padding and sorting change no rating calculateMemberElo computed: every
\* (title, rating) pair of a member's vector is there after padding as often as
\* before, and an added entry carries a title the member's vector did not have.
C14_PaddingKeepsRatings ==
  Stored =>
    LET raw == RawVectors IN
    /\ DOMAIN memberEloArrays = DOMAIN raw
    /\ \A m \in DOMAIN memberEloArrays :
         /\ \A i \in DOMAIN raw[m] :
              Count(memberEloArrays[m], raw[m][i]) = Count(raw[m], raw[m][i])
         /\ \A i \in DOMAIN memberEloArrays[m] :
              memberEloArrays[m][i].title \in TitlesOf(raw[m]) =>
                Count(memberEloArrays[m], memberEloArrays[m][i])
                  = Count(raw[m], memberEloArrays[m][i])

\* movies stored in the order B, A, so that the sort moves entries, and a second
\* member whose two ratings are both off the baseline
C14_Witness ==
  /\ Stored
  /\ Len(party_movies) = 2
  /\ party_movies[1].title = "B" /\ party_movies[2].title = "A"
  /\ Len(memberEloArrays) = 2
  /\ memberEloArrays[2] # RawVectors[2]
  /\ \A i \in DOMAIN memberEloArrays[2] : memberEloArrays[2][i].elo # Pts(BASE_ELO)

\* C15: the member vectors handed to checkAll are positionally aligned: the same
\* length, the same title at every index, titles in ascending order.
C15_Aligned ==
  Stored =>
    \A m \in DOMAIN memberEloArrays :
      /\ Len(memberEloArrays[m]) = Len(memberEloArrays[1])
      /\ Len(memberEloArrays[m]) = Len(party_movies)
      /\ \A i \in DOMAIN memberEloArrays[m] :
           memberEloArrays[m][i].title = memberEloArrays[1][i].title
      /\ \A i, j \in DOMAIN memberEloArrays[m] :
           i < j => TitleRank(memberEloArrays[m][i].title) <= TitleRank(memberEloArrays[m][j].title)

\* two members with different swipe histories over movies stored in the order B, A
C15_Witness ==
  /\ Stored
  /\ Len(party_movies) = 2
  /\ party_movies[1].title = "B" /\ party_movies[2].title = "A"
  /\ Len(Groups) = 2
  /\ Len(Groups[1].val) = 2
  /\ Len(Groups[2].val) = 1
  /\ memberEloArrays[1][1].title = "A"

\* the users with a row of status 'active'
ActiveUsers == { party_members[i].user_id :
                   i \in { k \in DOMAIN party_members : party_members[k].status = "active" } }

\* C20: swipes of users who are not active members have no effect: the consensus is
\* the one computed from the swipes of the active members alone, and one vector per
\* active member is aggregated, members without swipes included.
C20_NonMemberSwipesIgnored ==
  Stored =>
    LET FromActive(swipe) == swipe.user_id \in ActiveUsers
        theirs == SelectSeq(user_swipes, FromActive)
    IN  /\ Len(memberEloArrays) = Cardinality(ActiveUsers)
        /\ memberEloArrays =
             NormalizedArrays(party_movies, ActiveMembers(party_members), theirs)
        /\ aggregatedElos = checkAll(memberEloArrays)
        /\ \A i \in DOMAIN party_movies :
             \A k \in DOMAIN aggregatedElos :
               (DistinctTitles(party_movies) /\ aggregatedElos[k].title = party_movies[i].title) =>
                 party_movies[i].elo_rating = aggregatedElos[k].elo

\* one active member without swipes, and swipes recorded by a user who is not an
\* active member, on a movie of the party
C20_Witness ==
  /\ Stored
  /\ Cardinality(ActiveUsers) = 1
  /\ \A i \in DOMAIN user_swipes : user_swipes[i].user_id \notin ActiveUsers
  /\ \E i \in DOMAIN user_swipes :
       user_swipes[i].direction = "right" /\ user_swipes[i].movie_id \in MovieIdsOf(party_movies)
  /\ Len(user_swipes) = 2

-----------------------------------------------------------------------------
(* Properties of getPartyRankings, under Spec *)

Ranked == outcome = "ranked"

\* C16: in the ranking returned to callers, two candidates of equal rating come in
\* the order of their titles, whatever the order of the rows.
C16_TiesByTitle ==
  Ranked =>
    \A i, j \in DOMAIN rankings :
      (i < j /\ rankings[i].elo_rating = rankings[j].elo_rating) =>
        TitleRank(rankings[i].title) <= TitleRank(rankings[j].title)

-----------------------------------------------------------------------------
(* Properties of recordSwipe under interleaving, under SpecSwipe *)

\* no invocation is between two of its requests
Quiescent ==
  \A c \in DOMAIN calls :
    calls[c].pc \in { "returned", "Swipe already recorded for this movie" }

SwipesOf(user) == { i \in DOMAIN user_swipes : user_swipes[i].user_id = user }

\* C17: under any interleaving of recordSwipe invocations user_swipes holds at most
\* one swipe per (user, movie) of the party.
C17_OneSwipePerPair ==
  \A i, j \in DOMAIN user_swipes :
    (user_swipes[i].user_id = user_swipes[j].user_id
       /\ user_swipes[i].movie_id = user_swipes[j].movie_id) => i = j

\* C19: once the invocations have returned, a member's swipes_completed is the number
\* of swipes user_swipes holds for them, and has_completed_swiping says whether that
\* number is at least 10; here for members whose swipes are on different movies.
C19_CountMatchesSwipes ==
  (Quiescent /\ C17_OneSwipePerPair) =>
    \A m \in DOMAIN party_members :
      /\ party_members[m].swipes_completed = Cardinality(SwipesOf(party_members[m].user_id))
      /\ party_members[m].has_completed_swiping
           = (Cardinality(SwipesOf(party_members[m].user_id)) >= 10)

-----------------------------------------------------------------------------
(* Properties of generatePartyMovies, under SpecGen *)

NothingGenerated == ~gen.generated /\ gen.movies = << >> /\ gen.stored = "" /\ party_movies = << >>

PartyExists == \E i \in DOMAIN parties : parties[i].id = PartyId

\* C18: movies are generated and stored only after aggregate_party_preferences has
\* answered without an error and with a result; when the party is missing, the rpc
\* answers with an error, or it answers with nothing, the call throws and no movie
\* is generated or stored.
C18_GenerateAfterAggregate ==
  /\ ~NothingGenerated =>
       gen.party /\ gen.rpc /\ gen.reply.error = "" /\ ~gen.reply.data.null
  /\ (gen.pc # "getParty" /\ ~PartyExists) =>
       gen.pc = "Party not found" /\ ~gen.rpc /\ NothingGenerated
  /\ (gen.rpc /\ gen.reply.error # "") =>
       gen.pc = "Failed to aggregate preferences" /\ NothingGenerated
  /\ (gen.rpc /\ gen.reply.error = "" /\ gen.reply.data.null) =>
       gen.pc = "No preferences found" /\ NothingGenerated

\* the call has returned after storing two generated movies for an anonymous user,
\* from preferences that held a nested array and the urls of one member
C18_Witness ==
  /\ gen.pc = "returned"
  /\ gen.stored = "storePartyMoviesAnonymous"
  /\ Len(party_movies) = 2
  /\ gen.userInput.preferences = << [key |-> "genres", val |-> << "comedy", "drama", "7" >>] >>
  /\ gen.userInput.spotifyUrls.urls = << "s1" >>
  /\ \A i \in DOMAIN parties : parties[i].aggregated_preferences = gen.reply.data

-----------------------------------------------------------------------------
(* Properties of PreferenceForm, under SpecForm *)

\* C21: Enter pressed on the submit button is not default-prevented, Enter pressed
\* on any other element is.
C21_EnterOnSubmitNotPrevented ==
  keyEvent.key = "Enter" =>
    (keyEvent.defaultPrevented <=> ~(keyEvent.tagName = "BUTTON" /\ keyEvent.type = "submit"))

\* the values selected now: genre, language and song tags, age rating and era
Selected ==
  (Range(prefForm.genreTags) \cup Range(prefForm.languageTags) \cup Range(prefForm.songTags)
     \cup { prefForm.ageRating, prefForm.era }) \ { "" }

\* C22: after every sequence of events allInputs has no duplicate and holds exactly
\* the values selected now.
C22_AllInputsIsSelection ==
  /\ \A i, j \in DOMAIN prefForm.allInputs :
       prefForm.allInputs[i] = prefForm.allInputs[j] => i = j
  /\ Range(prefForm.allInputs) = Selected

====
